---- MODULE Spec2Model ----
(***************************************************************************)
(* ThreeShaderCanvas (src/example/uv/script.js, lines 101-258): one        *)
(* instance of the wrapper class, its uniform table, its render surface    *)
(* and the draw loop that startDrawing() hands to requestAnimationFrame.   *)
(*                                                                         *)
(* JavaScript runs every handler to completion, so each method call and    *)
(* each frame callback is one action.  The host clock (Date.now()) is in   *)
(* milliseconds and never goes back; it may advance between any two reads. *)
(* The calls into three.js (clear, render) may throw; the exception leaves *)
(* the handler at that statement.                                          *)
(***************************************************************************)
EXTENDS Integers, Sequences, FiniteSets, TLC

VARIABLES
    uniforms,       \* this._screenMesh.material.uniforms : key -> JS value
    size,           \* <<width, height>> of the renderer's surface (setSize)
    clearColor,     \* this._clearColor
    isDrawing,      \* this._isDrawing
    pending,        \* callbacks handed to requestAnimationFrame and not yet run
    startTime,      \* closure constant startTime of startDrawing (ms)
    lastFrameTime,  \* closure variable lastFrameTime of startDrawing (ms)
    surfaceColor,   \* <<c>>: the surface was last cleared with colour c; <<>>: never
    clock,          \* the host clock at the latest handler that read it (ms)
    hist,           \* history: what the run has done so far (not program state)
    lastOp          \* history: the call or callback made by the latest step

vars == <<uniforms, size, clearColor, isDrawing, pending, startTime,
          lastFrameTime, surfaceColor, clock, hist, lastOp>>

progVars == <<uniforms, size, clearColor, isDrawing, pending, startTime,
              lastFrameTime, surfaceColor>>

----------------------------------------------------------------------------
(* Bounds of the model. *)

MaxClock == 2      \* the clock reads 0 .. MaxClock seconds
MaxTicks == 3      \* frame callbacks run per instance
MaxVal == 1        \* numbers a caller passes are 0 .. MaxVal
MaxSize == 2       \* viewport widths and heights are 1 .. MaxSize

(* Program constants. *)

MsPerSecond == 1000
DefaultClearColor == 5592405      \* 0x555555

----------------------------------------------------------------------------
(* JavaScript values: undefined, a primitive number n, an object {value: n}. *)

Undefined == [tag |-> "undefined", value |-> 0]
Number(n) == [tag |-> "number", value |-> n]
ValueObject(n) == [tag |-> "object", value |-> n]

BuiltinKeys == {"screenWidth", "screenHeight", "time", "deltaTime", "frame"}
SizeKeys == {"screenWidth", "screenHeight"}
Keys == BuiltinKeys \cup {"custom"}

(* The keys the caller writes with setUniform and applyToUniform. *)
CallerKeys == {"screenWidth", "frame", "custom"}

Vals == {Number(n) : n \in 0..MaxVal}
Sizes == 1..MaxSize
Colors == {DefaultClearColor, MaxVal}
(* Date.now() reads whole seconds, so that the division by 1000 is exact. *)
Times == {MsPerSecond * t : t \in 0..MaxClock}
Faults == {"none", "clear", "render"}

----------------------------------------------------------------------------
(* The program state as one record, so that the methods are operators from *)
(* a state to the state they leave.                                        *)

State == [uniforms |-> uniforms, size |-> size, clearColor |-> clearColor,
          isDrawing |-> isDrawing, pending |-> pending,
          startTime |-> startTime, lastFrameTime |-> lastFrameTime,
          surfaceColor |-> surfaceColor, clock |-> clock]

StateAfter == [uniforms |-> uniforms', size |-> size', clearColor |-> clearColor',
               isDrawing |-> isDrawing', pending |-> pending',
               startTime |-> startTime', lastFrameTime |-> lastFrameTime',
               surfaceColor |-> surfaceColor', clock |-> clock']

Becomes(s) ==
    /\ uniforms' = s.uniforms
    /\ size' = s.size
    /\ clearColor' = s.clearColor
    /\ isDrawing' = s.isDrawing
    /\ pending' = s.pending
    /\ startTime' = s.startTime
    /\ lastFrameTime' = s.lastFrameTime
    /\ surfaceColor' = s.surfaceColor
    /\ clock' = s.clock

(* `x.value = v` on x: undefined and (in strict code, as a class body is)  *)
(* a primitive throw a TypeError; only an object takes the property.       *)
Assignable(x) == x.tag = "object"

(* a ?? b *)
Nullish(a, b) == IF a = Undefined THEN b ELSE a

----------------------------------------------------------------------------
(* getUniform(key): uniforms[key]?.value *)
getUniform(s, key) ==
    IF s.uniforms[key].tag = "object"
    THEN Number(s.uniforms[key].value)
    ELSE Undefined

(* setUniform(key, value), value a number *)
setUniform(s, key, value) ==
    IF s.uniforms[key] = Undefined
    THEN [state |-> [s EXCEPT !.uniforms[key] = ValueObject(value.value)],
          ret |-> "ok"]
    ELSE IF Assignable(s.uniforms[key])
    THEN [state |-> [s EXCEPT !.uniforms[key].value = value.value],
          ret |-> "ok"]
    ELSE [state |-> s, ret |-> "throw"]

(* The functions a caller hands to applyToUniform. *)
Funcs == {"succ", "zero"}

(* "succ": x => (x ?? 0) + 1      "zero": x => 0 *)
Call(func, x) ==
    IF func = "succ" THEN Number(Nullish(x, Number(0)).value + 1)
    ELSE Number(0)

(* applyToUniform(key, func) *)
applyToUniform(s, key, func) == setUniform(s, key, Call(func, getUniform(s, key)))

(* Mutant: the screenHeight uniform is not updated. *)
resizeWidthOnly(s, newWidth, newHeight) ==
    LET s1 == [s EXCEPT !.size = <<newWidth, newHeight>>]
    IN  IF ~Assignable(s1.uniforms["screenWidth"])
        THEN [state |-> s1, ret |-> "throw"]
        ELSE [state |-> [s1 EXCEPT !.uniforms["screenWidth"].value = newWidth],
              ret |-> "ok"]

(* resize(newWidth, newHeight); the camera and the mesh transform are not  *)
(* part of the state modelled.                                             *)
resize(s, newWidth, newHeight) ==
    LET s1 == [s EXCEPT !.size = <<newWidth, newHeight>>]
    IN  IF ~Assignable(s1.uniforms["screenWidth"])
        THEN [state |-> s1, ret |-> "throw"]
        ELSE LET s2 == [s1 EXCEPT !.uniforms["screenWidth"].value = newWidth]
             IN  IF ~Assignable(s2.uniforms["screenHeight"])
                 THEN [state |-> s2, ret |-> "throw"]
                 ELSE [state |-> [s2 EXCEPT !.uniforms["screenHeight"].value = newHeight],
                       ret |-> "ok"]

getClearColor(s) == s.clearColor

setClearColor(s, newColor) == [s EXCEPT !.clearColor = newColor]

----------------------------------------------------------------------------
(* The frame callback `animate`.  Its statements in order; a stage names   *)
(* the statement at which the callback threw, "done" that it ran through,  *)
(* "none" that no callback ran.                                            *)

Stages == <<"none", "clear", "deltaTime", "time", "render", "frame", "done">>

StageIndex(stage) == CHOOSE i \in 1..Len(Stages) : Stages[i] = stage

(* The callback got past the statement `point`. *)
Past(stage, point) == StageIndex(stage) > StageIndex(point)

animateStage(s, fault) ==
    IF fault = "clear" THEN "clear"
    ELSE IF ~Assignable(s.uniforms["deltaTime"]) THEN "deltaTime"
    ELSE IF ~Assignable(s.uniforms["time"]) THEN "time"
    ELSE IF fault = "render" THEN "render"
    ELSE IF ~Assignable(s.uniforms["frame"]) THEN "frame"
    ELSE "done"

(* Mutant: the callback is handed to requestAnimationFrame as the last    *)
(* statement instead of the first.                                         *)
animateScheduleLast(s, stage) ==
    IF stage = "done" THEN s.pending + 1 ELSE s.pending

(* requestAnimationFrame(animate), the first statement *)
animateSchedule(s, stage) == s.pending + 1

(* Mutant: the renderer's clear colour is set for the first frame only. *)
animateClearOnce(s, stage) ==
    IF Past(stage, "clear")
    THEN (IF s.surfaceColor = <<>> THEN <<s.clearColor>> ELSE s.surfaceColor)
    ELSE s.surfaceColor

(* renderer.setClearColor(this._clearColor); renderer.clear(true) *)
animateClear(s, stage) ==
    IF Past(stage, "clear") THEN <<s.clearColor>> ELSE s.surfaceColor

(* uniforms.deltaTime.value = ...; uniforms.time.value = ... *)
animateTimes(s, now, stage) ==
    LET u1 == IF Past(stage, "deltaTime")
              THEN [s.uniforms EXCEPT
                      !["deltaTime"].value = (now - s.lastFrameTime) \div MsPerSecond]
              ELSE s.uniforms
    IN  IF Past(stage, "time")
        THEN [u1 EXCEPT !["time"].value = (now - s.startTime) \div MsPerSecond]
        ELSE u1

(* Mutant: the frame count is incremented before the render. *)
animateCountEarly(table, stage) ==
    IF Past(stage, "time") THEN [table EXCEPT !["frame"].value = @ + 1] ELSE table

(* uniforms.frame.value++ *)
animateCount(table, stage) ==
    IF Past(stage, "frame") THEN [table EXCEPT !["frame"].value = @ + 1] ELSE table

(* Mutant: lastFrameTime is updated before the render. *)
animateStampEarly(s, now, stage) ==
    IF Past(stage, "time") THEN now ELSE s.lastFrameTime

(* lastFrameTime = now, the last statement *)
animateStamp(s, now, stage) ==
    IF stage = "done" THEN now ELSE s.lastFrameTime

animate(s, now, fault) ==
    LET stage == animateStage(s, fault)
    IN  [state |-> [s EXCEPT
                      !.pending = animateSchedule(s, stage),
                      !.surfaceColor = animateClear(s, stage),
                      !.clock = now,
                      !.uniforms = animateCount(animateTimes(s, now, stage), stage),
                      !.lastFrameTime = animateStamp(s, now, stage)],
         stage |-> stage]

(* Mutant: no `if (this._isDrawing) return false`. *)
startDrawingNoGuard(s, t1, t2, now, fault) ==
    LET r == animate([s EXCEPT !.isDrawing = TRUE,
                               !.startTime = t1,
                               !.lastFrameTime = t2,
                               !.clock = t2],
                     now, fault)
    IN  [state |-> r.state,
         ret |-> IF r.stage = "done" THEN "true" ELSE "throw",
         stage |-> r.stage]

(* Mutant: this._isDrawing is never set. *)
startDrawingFlagUnset(s, t1, t2, now, fault) ==
    IF s.isDrawing
    THEN [state |-> s, ret |-> "false", stage |-> "none"]
    ELSE LET r == animate([s EXCEPT !.startTime = t1,
                                    !.lastFrameTime = t2,
                                    !.clock = t2],
                          now, fault)
         IN  [state |-> r.state,
              ret |-> IF r.stage = "done" THEN "true" ELSE "throw",
              stage |-> r.stage]

(* Mutant: one clock read for both timestamps. *)
startDrawingOneRead(s, t1, t2, now, fault) ==
    IF s.isDrawing
    THEN [state |-> s, ret |-> "false", stage |-> "none"]
    ELSE LET r == animate([s EXCEPT !.isDrawing = TRUE,
                                    !.startTime = t1,
                                    !.lastFrameTime = t1,
                                    !.clock = t2],
                          now, fault)
         IN  [state |-> r.state,
              ret |-> IF r.stage = "done" THEN "true" ELSE "throw",
              stage |-> r.stage]

(* startDrawing(): t1 and t2 are its two reads of the clock, now is the    *)
(* clock at the call of animate() it ends with.                            *)
startDrawing(s, t1, t2, now, fault) ==
    IF s.isDrawing
    THEN [state |-> s, ret |-> "false", stage |-> "none"]
    ELSE LET r == animate([s EXCEPT !.isDrawing = TRUE,
                                    !.startTime = t1,
                                    !.lastFrameTime = t2,
                                    !.clock = t2],
                          now, fault)
         IN  [state |-> r.state,
              ret |-> IF r.stage = "done" THEN "true" ELSE "throw",
              stage |-> r.stage]

----------------------------------------------------------------------------
(* The constructor.  A configuration gives uniforms (name -> JS value, for *)
(* the names it lists), clearColor and autoStart, each possibly undefined. *)

True == [tag |-> "boolean", value |-> 1]
False == [tag |-> "boolean", value |-> 0]

CfgKeys == {"custom"}
CfgVals == {Number(MaxVal), ValueObject(MaxVal)}
CfgUniforms == UNION {[D -> CfgVals] : D \in SUBSET CfgKeys}

ConfigsOver(env) == [uniforms : env.cfgUniforms,
                     clearColor : env.cfgColors,
                     autoStart : {Undefined, True, False}]

(* The uniforms the ShaderMaterial is created with. *)
BuiltinUniforms ==
    [k \in Keys |-> IF k \in SizeKeys THEN ValueObject(1)
                    ELSE IF k \in BuiltinKeys THEN ValueObject(0)
                    ELSE Undefined]

(* for (const key of Object.keys(config.uniforms))                         *)
(*     material.uniforms[key] = config.uniforms[key];                      *)
mergeUniforms(table, given) ==
    [k \in Keys |-> IF k \in DOMAIN given THEN given[k] ELSE table[k]]

(* new ThreeShaderCanvas(config) in a window of innerWidth x innerHeight.  *)
(* ret is "throw" when the constructor does not return the instance.       *)
constructor(config, innerWidth, innerHeight, t1, t2, now, fault) ==
    LET s0 == [uniforms |-> mergeUniforms(BuiltinUniforms, config.uniforms),
               size |-> <<1, 1>>,
               clearColor |-> Nullish(config.clearColor,
                                      Number(DefaultClearColor)).value,
               isDrawing |-> FALSE, pending |-> 0,
               startTime |-> 0, lastFrameTime |-> 0,
               surfaceColor |-> <<>>, clock |-> 0]
        r1 == resize(s0, innerWidth, innerHeight)
        r2 == startDrawing(r1.state, t1, t2, now, fault)
    IN  IF r1.ret = "throw"
        THEN [state |-> r1.state, ret |-> "throw", started |-> FALSE, stage |-> "none"]
        ELSE IF Nullish(config.autoStart, True) = True
        THEN [state |-> r2.state,
              ret |-> IF r2.ret = "throw" THEN "throw" ELSE "ok",
              started |-> TRUE, stage |-> r2.stage]
        ELSE [state |-> r1.state, ret |-> "ok", started |-> FALSE, stage |-> "none"]

----------------------------------------------------------------------------
(* History of the run, kept beside the program state for the properties.   *)
(*   invoked      frame callbacks begun (the call in startDrawing counts)  *)
(*   completed    frame callbacks that ran through                         *)
(*   frameWritten the caller has written the frame uniform                 *)
(*   startGap     the second clock read of startDrawing minus the first    *)
(*   sumDelta     sum of the deltaTime values written since the start (ms) *)
(*   sumDone      the same, of the callbacks that ran through              *)
(*   prevNow      <<clock at the latest frame callback>>, <<>> before any  *)
(*   lastDoneNow  clock at the latest callback that ran through, or at the *)
(*                second clock read of startDrawing                        *)
(*   lastSetColor argument of the latest setClearColor, or the colour the  *)
(*                instance was constructed with                            *)

historyOfNew(config) ==
    [invoked |-> 0, completed |-> 0,
     frameWritten |-> "frame" \in DOMAIN config.uniforms,
     startGap |-> 0, sumDelta |-> 0, sumDone |-> 0,
     prevNow |-> <<>>, lastDoneNow |-> 0,
     lastSetColor |-> Nullish(config.clearColor, Number(DefaultClearColor)).value]

historyOfFrame(h, now, stage, after) ==
    LET written == IF Past(stage, "deltaTime")
                   THEN after.uniforms["deltaTime"].value * MsPerSecond
                   ELSE 0
    IN  [h EXCEPT !.invoked = @ + 1,
                  !.completed = IF stage = "done" THEN @ + 1 ELSE @,
                  !.sumDelta = @ + written,
                  !.sumDone = IF stage = "done" THEN @ + written ELSE @,
                  !.prevNow = <<now>>,
                  !.lastDoneNow = IF stage = "done" THEN now ELSE @]

historyOfStart(h, t1, t2, now, r) ==
    IF r.ret = "false" THEN h
    ELSE historyOfFrame([h EXCEPT !.startGap = t2 - t1, !.lastDoneNow = t2],
                        now, r.stage, r.state)

historyOfWrite(h, key, r) ==
    IF key = "frame" /\ r.ret = "ok" THEN [h EXCEPT !.frameWritten = TRUE] ELSE h

(* The latest step: the call, its key and value arguments (of the         *)
(* constructor, value is config.uniforms), how it returned, and the stage  *)
(* the frame callback it ran, if any, reached.                             *)
Op(op, key, value, ret, stage) ==
    [op |-> op, key |-> key, value |-> value, ret |-> ret, stage |-> stage]

----------------------------------------------------------------------------
(* The states a constructor call returns an instance in: a constructor     *)
(* whose resize or whose first frame (autoStart) throws returns none.  The *)
(* clock is counted from the construction.                                 *)
InitOver(env) ==
    \E config \in ConfigsOver(env),
       innerWidth \in env.sizes, innerHeight \in env.sizes,
       t1 \in env.times, t2 \in env.times, now \in env.times, fault \in Faults :
        /\ t1 <= t2 /\ t2 <= now
        /\ LET r == constructor(config, innerWidth, innerHeight, t1, t2, now, fault)
               h == historyOfNew(config)
           IN  /\ r.ret = "ok"
               /\ uniforms = r.state.uniforms
               /\ size = r.state.size
               /\ clearColor = r.state.clearColor
               /\ isDrawing = r.state.isDrawing
               /\ pending = r.state.pending
               /\ startTime = r.state.startTime
               /\ lastFrameTime = r.state.lastFrameTime
               /\ surfaceColor = r.state.surfaceColor
               /\ clock = r.state.clock
               /\ hist = IF r.started
                         THEN historyOfStart(h, t1, t2, now,
                                             [ret |-> "true", stage |-> r.stage,
                                              state |-> r.state])
                         ELSE h
               /\ lastOp = Op("new", "", config.uniforms, "ok", r.stage)

(* A call of startDrawing() by the caller. *)
StartDrawing(env) ==
    /\ isDrawing \/ hist.invoked < MaxTicks
    /\ \E t1 \in env.times, t2 \in env.times, now \in env.times, fault \in Faults :
        /\ clock <= t1 /\ t1 <= t2 /\ t2 <= now
        /\ LET r == startDrawing(State, t1, t2, now, fault)
           IN  /\ Becomes(r.state)
               /\ hist' = historyOfStart(hist, t1, t2, now, r)
               /\ lastOp' = Op("startDrawing", "", Undefined, r.ret, r.stage)

(* The host runs a callback handed to requestAnimationFrame. *)
FrameCallback(env) ==
    /\ pending > 0
    /\ hist.invoked < MaxTicks
    /\ \E now \in env.times, fault \in Faults :
        /\ clock <= now
        /\ LET r == animate([State EXCEPT !.pending = @ - 1], now, fault)
           IN  /\ Becomes(r.state)
               /\ hist' = historyOfFrame(hist, now, r.stage, r.state)
               /\ lastOp' = Op("frame", "", Undefined,
                               IF r.stage = "done" THEN "ok" ELSE "throw", r.stage)

(* resize(w, h), by the caller or by the window's resize listener. *)
Resize(w, h) ==
    LET r == resize(State, w, h)
    IN  /\ Becomes(r.state)
        /\ hist' = hist
        /\ lastOp' = Op("resize", "", Undefined, r.ret, "none")

SetUniform(key, value) ==
    LET r == setUniform(State, key, value)
    IN  /\ Becomes(r.state)
        /\ hist' = historyOfWrite(hist, key, r)
        /\ lastOp' = Op("setUniform", key, value, r.ret, "none")

ApplyToUniform(key, func) ==
    LET r == applyToUniform(State, key, func)
    IN  /\ Call(func, getUniform(State, key)).value <= MaxVal
        /\ Becomes(r.state)
        /\ hist' = historyOfWrite(hist, key, r)
        /\ lastOp' = Op("applyToUniform", key,
                        Call(func, getUniform(State, key)), r.ret, "none")

SetClearColor(newColor) ==
    /\ Becomes(setClearColor(State, newColor))
    /\ hist' = [hist EXCEPT !.lastSetColor = newColor]
    /\ lastOp' = Op("setClearColor", "", Number(newColor), "ok", "none")

NextOver(env) ==
    \/ StartDrawing(env)
    \/ FrameCallback(env)
    \/ \E w \in env.sizes, h \in env.sizes : Resize(w, h)
    \/ \E key \in env.keys, value \in env.vals : SetUniform(key, value)
    \/ \E key \in env.keys, func \in env.funcs : ApplyToUniform(key, func)
    \/ \E newColor \in env.colors : SetClearColor(newColor)

(* The uniform table and the surface under every call of the API, with the *)
(* clock standing still and one clear colour.                              *)
TableEnv ==
    [sizes |-> Sizes, keys |-> CallerKeys, vals |-> Vals, funcs |-> Funcs,
     colors |-> {DefaultClearColor}, times |-> {0},
     cfgUniforms |-> CfgUniforms, cfgColors |-> {Undefined}]

(* The draw loop under every clock and clear colour, with one viewport     *)
(* size and one caller uniform.                                            *)
LoopEnv ==
    [sizes |-> {MaxSize}, keys |-> {"custom"}, vals |-> {Number(MaxVal)},
     funcs |-> {"zero"},
     colors |-> Colors, times |-> Times,
     cfgUniforms |-> {<<>>}, cfgColors |-> {Undefined, Number(0)}]

Init == InitOver(TableEnv)
Next == NextOver(TableEnv)
Spec == Init /\ [][Next]_vars

LoopInit == InitOver(LoopEnv)
LoopNext == NextOver(LoopEnv)
LoopSpec == LoopInit /\ [][LoopNext]_vars

(* The schedule of the loop under every fault, with the clock standing     *)
(* still, one clear colour, one viewport size and one caller uniform.      *)
LiveEnv ==
    [sizes |-> {MaxSize}, keys |-> {"custom"}, vals |-> {Number(MaxVal)},
     funcs |-> {"zero"},
     colors |-> {DefaultClearColor}, times |-> {0},
     cfgUniforms |-> {<<>>}, cfgColors |-> {Undefined}]

LiveInit == InitOver(LiveEnv)
LiveNext == NextOver(LiveEnv)

(* The host runs every callback it was handed. *)
LiveSpec == LiveInit /\ [][LiveNext]_vars /\ WF_vars(FrameCallback(LiveEnv))

----------------------------------------------------------------------------
(* Properties.                                                             *)

(* The latest step ran a frame callback (by the host, in startDrawing or   *)
(* in the constructor) through to its end.                                 *)
FrameCompleted == lastOp.stage = "done"

(* C1, as claimed: a startDrawing() call made before the loop is started   *)
(* returns true and starts the loop; any other returns false and changes   *)
(* nothing.                                                                *)
C1_Original ==
    [][lastOp'.op = "startDrawing" =>
         IF ~isDrawing
         THEN lastOp'.ret = "true" /\ isDrawing' /\ pending' = pending + 1
         ELSE lastOp'.ret = "false" /\ UNCHANGED <<progVars, clock, hist>>]_vars

(* C1, amended: a startDrawing() call made before the loop is started      *)
(* starts the loop (one callback scheduled) and returns true, unless its   *)
(* own first frame throws, and then the exception leaves the call in place *)
(* of a return value; a call made once the loop is started returns false   *)
(* and leaves the schedule, both timestamps, every uniform and the rest of *)
(* the state as they were.                                                 *)
C1_StartOnce ==
    [][lastOp'.op = "startDrawing" =>
         IF ~isDrawing
         THEN /\ isDrawing' /\ pending' = pending + 1
              /\ lastOp'.ret = (IF lastOp'.stage = "done" THEN "true" ELSE "throw")
         ELSE lastOp'.ret = "false" /\ UNCHANGED <<progVars, clock, hist>>]_vars

(* A second call of startDrawing() returned false on a running loop. *)
C1_Witness ==
    /\ lastOp.op = "startDrawing" /\ lastOp.ret = "false"
    /\ isDrawing /\ hist.invoked >= 2

(* C2, as claimed: after setUniform(k, v), getUniform(k) is v. *)
C2_RoundTrip ==
    [][lastOp'.op = "setUniform" =>
         getUniform(StateAfter, lastOp'.key) = lastOp'.value]_vars

(* C3, as claimed: right after construction getUniform(k) is v for every   *)
(* entry k -> v of config.uniforms, and the built-in uniforms the caller   *)
(* did not name are present.                                               *)
C3_Merged ==
    lastOp.op = "new" =>
        /\ \A k \in DOMAIN lastOp.value : getUniform(State, k) = lastOp.value[k]
        /\ \A k \in BuiltinKeys \ DOMAIN lastOp.value : getUniform(State, k) # Undefined

(* The size uniforms are the surface's width and height. *)
SizeInSync ==
    /\ getUniform(State, "screenWidth") = Number(size[1])
    /\ getUniform(State, "screenHeight") = Number(size[2])

SizeInSyncAfter ==
    /\ getUniform(StateAfter, "screenWidth") = Number(size'[1])
    /\ getUniform(StateAfter, "screenHeight") = Number(size'[2])

(* C4, as claimed: the size uniforms are the surface's size in every state. *)
C4_Original == SizeInSync

(* C4, amended: the size uniforms are the surface's size after the         *)
(* construction and after every resize, and every step other than a        *)
(* setUniform or applyToUniform on screenWidth or screenHeight keeps them  *)
(* so.                                                                     *)
C4_SizeSync ==
    /\ [](lastOp.op \in {"new", "resize"} => SizeInSync)
    /\ [][(SizeInSync /\ ~(/\ lastOp'.op \in {"setUniform", "applyToUniform"}
                           /\ lastOp'.key \in SizeKeys))
          => SizeInSyncAfter]_vars

(* A resize to a non-square size on a running loop. *)
C4_Witness ==
    /\ lastOp.op = "resize" /\ size[1] # size[2]
    /\ SizeInSync /\ hist.invoked >= 2

(* C5, as claimed: the frame uniform is the number of frame callbacks      *)
(* invoked since the start.                                                *)
C5_Original == getUniform(State, "frame") = Number(hist.invoked)

(* C5, amended: as long as the caller has not written the frame uniform    *)
(* (config.uniforms, setUniform, applyToUniform), it is the number of      *)
(* frame callbacks that ran through to their end (0 before the start,      *)
(* never decreasing); a callback that threw is not counted.                *)
C5_FrameCount ==
    /\ [](~hist.frameWritten => getUniform(State, "frame") = Number(hist.completed))
    /\ [][~hist.frameWritten' =>
            getUniform(StateAfter, "frame").value >= getUniform(State, "frame").value]_vars

(* Two callbacks ran through and another threw. *)
C5_Witness ==
    /\ ~hist.frameWritten
    /\ hist.completed >= 2 /\ hist.invoked > hist.completed
    /\ getUniform(State, "frame") = Number(hist.completed)

(* C6, as claimed: the deltaTime a frame callback writes is the clock gap  *)
(* to the frame callback before it, in seconds.                            *)
C6_Original ==
    [][(lastOp'.op = "frame" /\ Past(lastOp'.stage, "deltaTime")) =>
         uniforms'["deltaTime"].value * MsPerSecond = clock' - hist.prevNow[1]]_vars

(* C6, amended: the deltaTime a frame callback writes is the clock gap, in *)
(* seconds, to the latest earlier frame callback that ran through to its   *)
(* end, or to the second clock read of startDrawing if none did.           *)
C6_DeltaTime ==
    [][(lastOp'.op = "frame" /\ Past(lastOp'.stage, "deltaTime")) =>
         uniforms'["deltaTime"].value * MsPerSecond = clock' - hist.lastDoneNow]_vars

(* A callback ran through after one that threw, the clock having advanced. *)
C6_Witness ==
    /\ lastOp.op = "frame" /\ FrameCompleted
    /\ hist.invoked > hist.completed
    /\ uniforms["deltaTime"].value > 0

(* C7: getClearColor() is the latest colour set (by setClearColor, or at   *)
(* construction), and a frame callback that clears the surface clears it   *)
(* with that colour.                                                       *)
C7_ClearColor ==
    /\ getClearColor(State) = hist.lastSetColor
    /\ (lastOp.op \in {"new", "startDrawing", "frame"} /\ Past(lastOp.stage, "clear"))
         => surfaceColor = <<hist.lastSetColor>>

(* A frame callback cleared with a colour that only setClearColor gives. *)
C7_Witness ==
    /\ lastOp.op = "frame" /\ Past(lastOp.stage, "clear")
    /\ surfaceColor = <<MaxVal>> /\ hist.invoked >= 2

(* C8: at most one frame callback is pending, and none before the start. *)
C8_OnePending == pending <= 1 /\ (pending = 1 => isDrawing)

(* startDrawing() was called again with a callback pending. *)
C8_Witness ==
    /\ pending = 1 /\ lastOp.op = "startDrawing" /\ lastOp.ret = "false"
    /\ hist.invoked >= 2 /\ hist.invoked > hist.completed

(* C9: on a started loop, after the n-th frame callback an (n+1)-th runs,  *)
(* for every n below the bound on callbacks, whether or not callbacks      *)
(* threw.                                                                  *)
C9_LoopNeverStops ==
    \A n \in 1..(MaxTicks - 1) :
        (isDrawing /\ hist.invoked = n) ~> (hist.invoked = n + 1)

(* A frame callback ran after one that threw. *)
C9_Witness ==
    /\ lastOp.op = "frame" /\ hist.invoked >= 2
    /\ hist.prevNow # <<>> /\ hist.invoked > hist.completed /\ FrameCompleted

(* C10, as claimed: the two timestamps of startDrawing are equal, and      *)
(* after a completed frame callback the time uniform is the sum of the     *)
(* deltaTime values written since the start.                               *)
C10_Original ==
    /\ hist.startGap = 0
    /\ FrameCompleted => uniforms["time"].value * MsPerSecond = hist.sumDelta

(* C10, amended: the loop-start timestamp is the first clock read of       *)
(* startDrawing and the initial last-frame timestamp the second, so the    *)
(* first is never the later one; after a completed frame callback the time *)
(* uniform is the gap between the two reads plus the sum of the deltaTime  *)
(* values written by the callbacks that ran through to their end.          *)
C10_TimeIsSum ==
    /\ hist.startGap >= 0
    /\ isDrawing => startTime + hist.startGap + hist.sumDone = lastFrameTime
    /\ FrameCompleted =>
         uniforms["time"].value * MsPerSecond = hist.startGap + hist.sumDone

(* A completed callback after one that threw, the clock having advanced    *)
(* between the two reads of startDrawing.                                  *)
C10_Witness ==
    /\ lastOp.op = "frame" /\ FrameCompleted
    /\ hist.startGap > 0 /\ hist.sumDelta > hist.sumDone

====
